---- MODULE Spec2Model ----
(***************************************************************************)
(* ServerManager (packages/neo-one-server-client/src/ServerManager.js):    *)
(* several client processes share one data directory.  Each runs the       *)
(* methods of its own ServerManager; the pid file, the process table and   *)
(* the server port are shared.  A step of a client is one continuation of  *)
(* an async method: the resolution of the pending await together with the  *)
(* synchronous code that follows it up to the next await.                  *)
(***************************************************************************)
EXTENDS Integers, Sequences, FiniteSets, TLC

\* ---- bounds of the model ----
MaxSpawn == 2          \* spawn() calls explored
MaxCalls == 2          \* method calls explored when calls do not overlap
MaxRaceCalls == 3      \* method calls explored when they do
MaxRepeatCalls == 5    \* start and writePID calls explored one after another
MaxRuns == 3           \* invocations of a command explored
MaxCancels == 2        \* cancel requests explored in one invocation
MaxCreates == 2        \* createNew and createExisting calls explored

\* ---- constants of the program ----
VersionBudget == 5
RunningBudget == 5
ReachableBudget == 30
Radix == 10

Clients == {1, 2}                      \* process.pid of each client
Versions == {"v1", "v2"}
Errors == {"e1", "e2"}                 \* errors client.wait can reject with
TickSteps == {30, 31}                  \* seconds the clock moves at a time
OldServer == Cardinality(Clients) + 1  \* pid of a server of an earlier session
ServerPids == OldServer .. (OldServer + MaxSpawn)

\* ---- JavaScript values held in a pid variable ----
Num(n) == <<"number", n>>
NaN == <<"NaN", 0>>
Null == <<"null", 0>>

\* ---- text of the pid file ----
DigitChars == <<"0", "1", "2", "3", "4", "5", "6", "7", "8", "9">>
IsDigit(ch) == \E i \in 1..Len(DigitChars) : DigitChars[i] = ch
DigitValue(ch) == (CHOOSE i \in 1..Len(DigitChars) : DigitChars[i] = ch) - 1

RECURSIVE StripLeft(_)
StripLeft(s) ==
  IF s # <<>> /\ Head(s) = " " THEN StripLeft(Tail(s)) ELSE s

RECURSIVE DigitRun(_)
DigitRun(s) ==
  IF s # <<>> /\ IsDigit(Head(s)) THEN <<Head(s)>> \o DigitRun(Tail(s)) ELSE <<>>

RECURSIVE Decimal(_, _)
Decimal(ds, acc) ==
  IF ds = <<>> THEN acc ELSE Decimal(Tail(ds), acc * Radix + DigitValue(Head(ds)))

\* parseInt(text, 10): leading blanks and a sign are skipped, the longest run
\* of digits is the value, and no digit at all gives NaN.  It never throws.
parseInt(s) ==
  LET t == StripLeft(s)
      signed == t # <<>> /\ Head(t) \in {"-", "+"}
      u == IF signed THEN Tail(t) ELSE t
      ds == DigitRun(u)
  IN  IF ds = <<>> THEN NaN
      ELSE IF signed /\ Head(t) = "-" THEN Num(0 - Decimal(ds, 0))
      ELSE Num(Decimal(ds, 0))

\* `${pid}` for an integer pid
RECURSIVE Digits(_)
Digits(n) ==
  IF n < Radix THEN <<DigitChars[n + 1]>>
  ELSE Digits(n \div Radix) \o <<DigitChars[(n % Radix) + 1]>>

ToText(n) == IF n < 0 THEN <<"-">> \o Digits(0 - n) ELSE Digits(n)

NoFile == [exists |-> FALSE, contents |-> <<>>]
File(s) == [exists |-> TRUE, contents |-> s]

\* contents the pid file may hold before any client runs
InitContents == { <<"x">>, <<"3", "x">>, <<"3">>, <<"1">> }

VARIABLES
  pidFile,        \* the file at pidPath
  proc,           \* the process table: the state of every pid
  listening,      \* pid of the server bound to the port, 0 when none
  procVersion,    \* version each spawned server reports
  nextPid,        \* pid the next spawn returns
  call,           \* the method each client is in, and its locals
  result,         \* how each client's last call ended
  checked,        \* what checkAlive returned in the current call
  probed,         \* the error of the latest rejected client.wait of the call
  log,            \* collaborator calls made by the current call
  calls,          \* method calls made so far
  concurrent,     \* whether calls of different clients may overlap
  limit,          \* method calls explored
  command,        \* a command of the interactive CLI and its `cancelled` flag
  resource,       \* a smart contract resource: its files and the calls on it
  history         \* whether start calls overlapped, whether one failed, and
                  \* the pids start returned that their callers recorded

vars == <<pidFile, proc, listening, procVersion, nextPid,
          call, result, checked, probed, log, calls, concurrent, limit, history,
          command, resource>>

\* what no method of ServerManager changes
others == <<concurrent, limit, command, resource>>

\* the state of the ServerManager clients and of their host
managers == <<pidFile, proc, listening, procVersion, nextPid,
              call, result, checked, probed, log, calls, concurrent, limit, history>>

Pids == Clients \cup ServerPids

\* this._serverVersion: the two clients are of different builds
serverVersion == [c \in Clients |-> IF c = 1 THEN "v1" ELSE "v2"]

IdleFrame ==
  [pc |-> "idle", op |-> "none", pid |-> Null, child |-> 0, elapsed |-> 0,
   error |-> "none", onStart |-> FALSE]

NoResult ==
  [status |-> "none", op |-> "none", pid |-> Null, started |-> FALSE, error |-> "none"]

Returned(o, v, st) ==
  [status |-> "returned", op |-> o, pid |-> v, started |-> st, error |-> "none"]

Threw(o, e) ==
  [status |-> "threw", op |-> o, pid |-> Null, started |-> FALSE, error |-> e]

NotChecked == [done |-> FALSE, owner |-> Null, fileExists |-> FALSE]

\* The clients find what earlier sessions left: a pid file or none, and
\* possibly a server of either version, bound to the port or not.
\* a command that is not invoked
Uninvoked(cancellable) ==
  [pc |-> "idle", hasCancel |-> cancellable, cancelled |-> FALSE, runs |-> 0,
   events |-> <<>>, thrown |-> "none", outcome |-> "none"]

\* ---- JavaScript values held in a file of a resource ----
\* A text is a sequence of characters, a name counting as one character.
Str(s) == <<"string", s, <<>>>>
Obj(fields) == <<"object", <<>>, fields>>
Undefined == <<"undefined", <<>>, <<>>>>
SyntaxError == <<"error", <<>>, <<>>>>

Quote == "\""
Backslash == "\\"

RECURSIVE Escape(_)
Escape(s) ==
  IF s = <<>> THEN <<>>
  ELSE (IF Head(s) \in {Quote, Backslash} THEN <<Backslash, Head(s)>> ELSE <<Head(s)>>)
       \o Escape(Tail(s))

StringLiteral(s) == <<Quote>> \o Escape(s) \o <<Quote>>

\* the members of an object whose values are strings; a member that is
\* undefined is left out
RECURSIVE Members(_)
Members(fields) ==
  IF fields = <<>> THEN <<>>
  ELSE LET f == Head(fields)
           rest == Members(Tail(fields))
       IN  IF f[2][1] # "string" THEN rest
           ELSE StringLiteral(<<f[1]>>) \o <<":">> \o StringLiteral(f[2][2])
                \o (IF rest = <<>> THEN <<>> ELSE <<",">> \o rest)

\* JSON.stringify(value), which fs.writeJSON(file, value) writes
stringify(v) ==
  IF v[1] = "string" THEN StringLiteral(v[2])
  ELSE IF v[1] = "object" THEN <<"{">> \o Members(v[3]) \o <<"}">>
  ELSE <<>>

NoString == [ok |-> FALSE, text |-> <<>>, rest |-> <<>>]

\* the string literal whose opening quote has been read
RECURSIVE ReadString(_, _)
ReadString(ts, acc) ==
  IF ts = <<>> THEN NoString
  ELSE IF Head(ts) = Quote THEN [ok |-> TRUE, text |-> acc, rest |-> Tail(ts)]
  ELSE IF Head(ts) = Backslash
  THEN IF Len(ts) < 2 THEN NoString
       ELSE ReadString(Tail(Tail(ts)), Append(acc, ts[2]))
  ELSE ReadString(Tail(ts), Append(acc, Head(ts)))

NoMembers == [ok |-> FALSE, fields |-> <<>>, rest |-> <<>>]

\* the members of the object whose opening brace has been read
RECURSIVE ReadMembers(_, _)
ReadMembers(ts, acc) ==
  IF ts = <<>> THEN NoMembers
  ELSE IF Head(ts) = "}" THEN [ok |-> TRUE, fields |-> acc, rest |-> Tail(ts)]
  ELSE IF Head(ts) = "," /\ acc # <<>> THEN ReadMembers(Tail(ts), acc)
  ELSE IF Head(ts) # Quote THEN NoMembers
  ELSE LET k == ReadString(Tail(ts), <<>>) IN
         IF ~k.ok \/ Len(k.text) # 1 \/ Len(k.rest) < 2
            \/ k.rest[1] # ":" \/ k.rest[2] # Quote
         THEN NoMembers
         ELSE LET v == ReadString(Tail(Tail(k.rest)), <<>>) IN
                IF ~v.ok THEN NoMembers
                ELSE ReadMembers(v.rest, Append(acc, <<k.text[1], Str(v.text)>>))

\* JSON.parse(text), which fs.readJSON(file) returns
parse(ts) ==
  IF ts = <<>> THEN SyntaxError
  ELSE IF Head(ts) = Quote
  THEN LET r == ReadString(Tail(ts), <<>>) IN
         IF r.ok /\ r.rest = <<>> THEN Str(r.text) ELSE SyntaxError
  ELSE IF Head(ts) = "{"
  THEN LET r == ReadMembers(Tail(ts), <<>>) IN
         IF r.ok /\ r.rest = <<>> THEN Obj(r.fields) ELSE SyntaxError
  ELSE SyntaxError

\* `const { key } = value`
Field(v, key) ==
  IF v[1] = "object" /\ \E i \in 1..Len(v[3]) : v[3][i][1] = key
  THEN v[3][CHOOSE i \in 1..Len(v[3]) : v[3][i][1] = key][2]
  ELSE Undefined

\* a SmartContractResource, as _toResource shows it
Resource(h, name, a) == [made |-> TRUE, hash |-> h, contractName |-> name, abi |-> a]
NoResource == [made |-> FALSE, hash |-> Undefined, contractName |-> Undefined,
               abi |-> Undefined]

NoOptions == [abi |-> Undefined, contract |-> Undefined, hash |-> Undefined,
              wallet |-> Undefined]

\* a data path that holds no resource
Unused ==
  [pc |-> "idle", options |-> NoOptions, hash |-> Undefined,
   config |-> NoFile, abiFile |-> NoFile,
   created |-> NoResource, existing |-> NoResource, error |-> "none", creates |-> 0]

Setup(overlap) ==
  /\ resource = Unused
  /\ command = Uninvoked(TRUE)
  /\ concurrent = overlap
  /\ pidFile \in {NoFile} \cup {File(s) : s \in InitContents}
  /\ \E old \in Versions \cup {"none"} :
       /\ proc = [p \in Pids |-> IF p \in Clients \/ (p = OldServer /\ old # "none")
                                  THEN "running" ELSE "none"]
       /\ procVersion = [p \in ServerPids |-> IF p = OldServer THEN old ELSE "none"]
       /\ listening \in IF old = "none" THEN {0} ELSE {0, OldServer}
  /\ nextPid = OldServer + 1
  /\ call = [c \in Clients |-> IdleFrame]
  /\ result = [c \in Clients |-> NoResult]
  /\ checked = [c \in Clients |-> NotChecked]
  /\ probed = [c \in Clients |-> "none"]
  /\ log = [c \in Clients |-> <<>>]
  /\ calls = 0
  /\ history = [overlapped |-> FALSE, failed |-> FALSE, recorded |-> {}]

\* Calls of different clients follow one another.
Init == Setup(FALSE) /\ limit = MaxCalls

\* Clients of a host without a server call at the same time.
InitRace == Setup(TRUE) /\ limit = MaxRaceCalls /\ proc[OldServer] = "none"

\* whether client c may take a step
Turn(c) ==
  /\ proc[c] = "running"
  /\ concurrent \/ \A d \in Clients \ {c} : call[d].pc = "idle"

\* ---- collaborators ----

\* is-running: true exactly for a pid the process table holds
isRunning(v) == v[1] = "number" /\ v[2] \in Pids /\ proc[v[2]] = "running"

\* killProcess: the named process, if there is one, is gone when it resolves
Terminated(v) ==
  IF v[1] = "number" /\ v[2] \in Pids /\ proc[v[2]] \in {"starting", "running"}
  THEN [proc EXCEPT ![v[2]] = "exited"]
  ELSE proc

Released(v) == IF v[1] = "number" /\ listening = v[2] THEN 0 ELSE listening

\* one entry of the log; a repeated poll is kept once
Note(lg, e) == IF lg # <<>> /\ lg[Len(lg)] = e THEN lg ELSE Append(lg, e)

Count(lg, kind) == Cardinality({i \in 1..Len(lg) : lg[i][1] = kind})

\* ---- a call begins ----

\* a start has returned and writePID has not recorded its pid yet
Unrecorded(c) ==
  result[c].status = "returned" /\ result[c].op = "start" /\ result[c].started

InFlight(c) == call[c].pc # "idle" \/ Unrecorded(c)

\* What is kept of a finished call lasts until the next call begins, but for
\* the pid a start returned, which its caller holds until writePID has it.
Begin(c, frame, lg) ==
  /\ Turn(c)
  /\ call[c].pc = "idle"
  /\ calls < limit
  /\ calls' = calls + 1
  /\ call' = [call EXCEPT ![c] = frame]
  /\ result' = [d \in Clients |->
                  IF d = c \/ (call[d].pc = "idle" /\ ~Unrecorded(d))
                  THEN NoResult ELSE result[d]]
  /\ checked' = [d \in Clients |->
                   IF d = c \/ call[d].pc = "idle" THEN NotChecked ELSE checked[d]]
  /\ probed' = [d \in Clients |->
                  IF d = c \/ call[d].pc = "idle" THEN "none" ELSE probed[d]]
  /\ log' = [d \in Clients |->
               IF d = c THEN lg ELSE IF call[d].pc = "idle" THEN <<>> ELSE log[d]]
  /\ UNCHANGED <<pidFile, proc, listening, procVersion, nextPid, others>>

CallStart(c, cb) ==
  /\ Begin(c, [IdleFrame EXCEPT !.pc = "readFile", !.op = "start", !.onStart = cb],
           IF cb THEN <<<<"onStartGiven", Null>>>> ELSE <<>>)
  /\ history' = [history EXCEPT
                   !.overlapped = @ \/ \E d \in Clients : InFlight(d)]

CallCheckAlive(c) ==
  /\ Begin(c, [IdleFrame EXCEPT !.pc = "readFile", !.op = "checkAlive"], <<>>)
  /\ UNCHANGED history

CallGetServerPID(c) ==
  /\ Begin(c, [IdleFrame EXCEPT !.pc = "readFile", !.op = "getServerPID"], <<>>)
  /\ UNCHANGED history

\* kill(optionsIn): with a pid killProcess is called at once, without one the
\* pid file is read first
CallKill(c, v) ==
  /\ IF v = Null
     THEN Begin(c, [IdleFrame EXCEPT !.pc = "readFile", !.op = "kill"], <<>>)
     ELSE Begin(c, [IdleFrame EXCEPT !.pc = "killProcess", !.op = "kill", !.pid = v],
                <<<<"kill", v>>>>)
  /\ UNCHANGED history

CallWritePID(c, n) ==
  /\ Begin(c, [IdleFrame EXCEPT !.pc = "writeFile", !.op = "writePID", !.pid = Num(n)],
           IF Unrecorded(c) /\ result[c].pid = Num(n)
           THEN <<<<"returned", Num(n)>>>> ELSE <<>>)
  /\ UNCHANGED history

\* ---- a call goes on ----

At(c, where) == Turn(c) /\ call[c].pc = where

Return(c, res, lg) ==
  /\ call' = [call EXCEPT ![c] = IdleFrame]
  /\ result' = [result EXCEPT ![c] = res]
  /\ log' = [log EXCEPT ![c] = lg]

\* getServerPID: a missing file gives null, anything else is what parseInt
\* makes of the text
ServerPID == IF pidFile.exists THEN parseInt(pidFile.contents) ELSE Null

GetServerPIDReturns(c) ==
  /\ At(c, "readFile")
  /\ call[c].op = "getServerPID"
  /\ Return(c, Returned("getServerPID", ServerPID, FALSE), log[c])
  /\ UNCHANGED <<pidFile, proc, listening, procVersion, nextPid,
                 checked, probed, calls, others, history>>

\* `pid == null`, `pid != null`
IsNull(v) == v = Null

\* kill, after getServerPID: only null stops it short of killProcess
KillResolvesPID(c) ==
  /\ At(c, "readFile")
  /\ call[c].op = "kill"
  /\ LET lg == Append(log[c], <<"read", ServerPID>>) IN
       IF IsNull(ServerPID)
       THEN Return(c, Returned("kill", Null, FALSE), lg)
       ELSE /\ call' = [call EXCEPT ![c].pc = "killProcess", ![c].pid = ServerPID]
            /\ log' = [log EXCEPT ![c] = Append(lg, <<"kill", ServerPID>>)]
            /\ UNCHANGED result
  /\ UNCHANGED <<pidFile, proc, listening, procVersion, nextPid,
                 checked, probed, calls, others, history>>

\* a start that forgets onStart
Unnotified(c, lg) == lg

\* start: onStart is called when it was given
Notified(c, lg) == IF call[c].onStart THEN Append(lg, <<"onStart", Null>>) ELSE lg

\* a start that spawns before it calls onStart
SpawnedUnannounced(c, lg, child) ==
  Append(Notified(c, Append(lg, <<"spawn", Num(child)>>)), <<"waitRunning", Null>>)

\* start: onStart(), then spawn(...), then waitRunning({ pid: child.pid })
Launched(c, lg, child) ==
  Append(Append(Notified(c, lg), <<"spawn", Num(child)>>), <<"waitRunning", Null>>)

\* start from onStart to the first await: the child is spawned, waitRunning
\* tests it once and waitReachable sends its first probe if that test passes.
\* binary is the build the client itself runs, so the child reports the
\* client's version.
SpawnAndWait(c, lg) ==
  /\ nextPid \in ServerPids
  /\ \E up \in BOOLEAN :
       LET child == nextPid
           lg2 == Launched(c, lg, child)
       IN  /\ nextPid' = nextPid + 1
           /\ procVersion' = [procVersion EXCEPT ![child] = serverVersion[c]]
           /\ proc' = [proc EXCEPT ![child] = IF up THEN "running" ELSE "starting"]
           /\ call' = [call EXCEPT ![c].pc = IF up THEN "wait" ELSE "sleepRunning",
                                   ![c].child = child,
                                   ![c].elapsed = 0]
           /\ log' = [log EXCEPT ![c] =
                        IF up
                        THEN Append(Append(lg2, <<"running", Num(child)>>),
                                    <<"waitReachable", Null>>)
                        ELSE lg2]
           /\ UNCHANGED result

\* a start that spawns whatever checkAlive returned
IgnoresOwner(owner) == FALSE

\* start: `pid != null` of what checkAlive returned
HasOwner(owner) == ~IsNull(owner)

\* what follows `await this.checkAlive(port)`, in checkAlive's caller
AfterCheckAlive(c, owner, lg, exists) ==
  /\ checked' = [checked EXCEPT
                   ![c] = [done |-> TRUE, owner |-> owner, fileExists |-> exists]]
  /\ IF call[c].op = "checkAlive"
     THEN /\ Return(c, Returned("checkAlive", owner, FALSE), lg)
          /\ UNCHANGED <<proc, procVersion, nextPid>>
     ELSE IF HasOwner(owner)
     THEN /\ Return(c, Returned("start", owner, FALSE), lg)
          /\ UNCHANGED <<proc, procVersion, nextPid>>
     ELSE SpawnAndWait(c, lg)

\* a checkAlive that does not know its own pid
NeverSelf(c, pid) == FALSE

\* checkAlive: `pid === process.pid`
IsSelf(c, pid) == pid = Num(c)

\* a checkAlive that takes every recorded owner to be alive
AssumedAlive(pid) == TRUE

\* checkAlive: `isRunning(pid)` of the pid read
OwnerAlive(pid) == isRunning(pid)

\* checkAlive, after getServerPID: the caller's own pid is returned at once; of
\* another pid isRunning decides between isSameVersion, which sends its first
\* query, and fs.remove
CheckAliveReads(c) ==
  /\ At(c, "readFile")
  /\ call[c].op \in {"start", "checkAlive"}
  /\ LET pid == ServerPID
         lg == Append(log[c], <<"read", pid>>)
     IN
       IF IsSelf(c, pid) THEN AfterCheckAlive(c, pid, lg, pidFile.exists)
       ELSE IF ~IsNull(pid)
       THEN /\ call' = [call EXCEPT
                          ![c].pc = IF OwnerAlive(pid) THEN "getVersion" ELSE "remove",
                          ![c].pid = pid,
                          ![c].elapsed = 0]
            /\ log' = [log EXCEPT ![c] =
                         Append(lg, <<IF isRunning(pid) THEN "alive" ELSE "dead", pid>>)]
            /\ UNCHANGED <<result, checked, proc, procVersion, nextPid>>
       ELSE AfterCheckAlive(c, Null, lg, pidFile.exists)
  /\ UNCHANGED <<pidFile, listening, probed, calls, others, history>>

\* an isSameVersion with the comparison inverted
OtherVersion(c, version) == version # serverVersion[c]

\* isSameVersion: `version === expectedVersion`
SameVersion(c, version) == version = serverVersion[c]

\* a checkAlive that removes the pid file of an incompatible owner and lets
\* the owner run
Spared(c, lg) ==
  /\ call' = [call EXCEPT ![c].pc = "remove"]
  /\ log' = [log EXCEPT ![c] = lg]

\* checkAlive, when isSameVersion gave false: this.kill({ pid }) calls
\* killProcess
Incompatible(c, lg) ==
  /\ call' = [call EXCEPT ![c].pc = "killProcess"]
  /\ log' = [log EXCEPT ![c] = Append(lg, <<"kill", call[c].pid>>)]

\* isSameVersion: client.getVersion() answers with the version of the server
\* on the port, and the first answer decides
GetVersionAnswers(c) ==
  /\ At(c, "getVersion")
  /\ listening # 0
  /\ LET lg == Append(log[c], <<"version", Num(listening)>>) IN
       IF SameVersion(c, procVersion[listening])
       THEN AfterCheckAlive(c, call[c].pid, lg, pidFile.exists)
       ELSE /\ Incompatible(c, lg)
            /\ UNCHANGED <<result, checked, proc, procVersion, nextPid>>
  /\ UNCHANGED <<pidFile, listening, probed, calls, others, history>>

\* a loop that gives up one second early
Hasty(elapsed, budget) == elapsed < budget

\* a loop without a deadline
Unbounded(elapsed, budget) == TRUE

\* the deadline test of the three loops: `nowSeconds() - startTime <= 5`
WithinBudget(elapsed, budget) == elapsed <= budget

\* isSameVersion: client.getVersion() rejects; the loop asks again while the
\* budget lasts and gives false after it
GetVersionFails(c) ==
  /\ At(c, "getVersion")
  /\ IF WithinBudget(call[c].elapsed, VersionBudget)
     THEN /\ log' = [log EXCEPT ![c] = Note(log[c], <<"noVersion", Null>>)]
          /\ UNCHANGED call
     ELSE Incompatible(c, Note(log[c], <<"noVersion", Null>>))
  /\ UNCHANGED <<pidFile, proc, listening, procVersion, nextPid,
                 result, checked, probed, calls, others, history>>

\* killProcess resolves; kill returns, and checkAlive goes on to fs.remove
KillProcessResolves(c) ==
  /\ At(c, "killProcess")
  /\ proc' = Terminated(call[c].pid)
  /\ listening' = Released(call[c].pid)
  /\ IF call[c].op = "kill"
     THEN Return(c, Returned("kill", Null, FALSE), log[c])
     ELSE /\ call' = [call EXCEPT ![c].pc = "remove"]
          /\ UNCHANGED <<result, log>>
  /\ UNCHANGED <<pidFile, procVersion, nextPid, checked, probed, calls, others, history>>

\* an fs.remove of another path
Kept(f) == f

\* fs.remove(this.pidPath)
Removed(f) == NoFile

\* checkAlive: fs.remove resolves and checkAlive returns null
RemoveResolves(c) ==
  /\ At(c, "remove")
  /\ pidFile' = Removed(pidFile)
  /\ AfterCheckAlive(c, Null, Append(log[c], <<"remove", Null>>), pidFile'.exists)
  /\ UNCHANGED <<listening, probed, calls, others, history>>

\* a start that does not await waitRunning
WaitRunningSkipped(c) ==
  /\ At(c, "sleepRunning")
  /\ call' = [call EXCEPT ![c].pc = "wait", ![c].elapsed = 0]
  /\ log' = [log EXCEPT ![c] = Append(log[c], <<"waitReachable", Null>>)]
  /\ UNCHANGED <<pidFile, proc, listening, procVersion, nextPid,
                 result, checked, probed, calls, others, history>>

\* waitRunning: the 100ms sleep is over and the loop condition is tested; when
\* it fails, by isRunning(pid) or by the deadline, waitRunning returns and
\* waitReachable sends its first probe
RunningSleepResolves(c) ==
  /\ At(c, "sleepRunning")
  /\ IF ~isRunning(Num(call[c].child)) /\ WithinBudget(call[c].elapsed, RunningBudget)
     THEN UNCHANGED <<call, log>>
     ELSE /\ call' = [call EXCEPT ![c].pc = "wait", ![c].elapsed = 0]
          /\ log' = [log EXCEPT ![c] =
                       Append(Append(log[c],
                                     <<IF isRunning(Num(call[c].child))
                                       THEN "running" ELSE "notRunning",
                                       Num(call[c].child)>>),
                              <<"waitReachable", Null>>)]
  /\ UNCHANGED <<pidFile, proc, listening, procVersion, nextPid,
                 result, checked, probed, calls, others, history>>

\* a start that records the pid of the server it started
WaitRecords(c) ==
  /\ At(c, "wait")
  /\ listening # 0
  /\ pidFile' = File(ToText(call[c].child))
  /\ Return(c, Returned("start", Num(call[c].child), TRUE),
            Append(log[c], <<"reachable", Num(listening)>>))
  /\ UNCHANGED <<proc, listening, procVersion, nextPid,
                 checked, probed, calls, others, history>>

\* waitReachable: client.wait(1000) resolves, and start returns
WaitSucceeds(c) ==
  /\ At(c, "wait")
  /\ listening # 0
  /\ Return(c, Returned("start", Num(call[c].child), TRUE),
            Append(log[c], <<"reachable", Num(listening)>>))
  /\ UNCHANGED <<pidFile, proc, listening, procVersion, nextPid,
                 checked, probed, calls, others, history>>

\* waitReachable: client.wait(1000) rejects and the 100ms sleep begins
WaitFails(c, e) ==
  /\ At(c, "wait")
  /\ call' = [call EXCEPT ![c].pc = "sleepWait", ![c].error = e]
  /\ probed' = [probed EXCEPT ![c] = e]
  /\ log' = [log EXCEPT ![c] = Note(log[c], <<"unreachable", Null>>)]
  /\ UNCHANGED <<pidFile, proc, listening, procVersion, nextPid,
                 result, checked, calls, others, history>>

\* a waitReachable that never sets lastError
NoError(c) == "none"

\* waitReachable: `lastError = error`
LastError(c) == call[c].error

\* waitReachable: the sleep is over, lastError is set and the loop condition
\* is tested; after the budget the last error is thrown, out of start
WaitSleepResolves(c) ==
  /\ At(c, "sleepWait")
  /\ LET lastError == LastError(c) IN
       IF WithinBudget(call[c].elapsed, ReachableBudget)
       THEN /\ call' = [call EXCEPT ![c].pc = "wait"]
            /\ UNCHANGED <<result, log>>
       ELSE IF lastError # "none"
       THEN Return(c, Threw("start", lastError), log[c])
       ELSE Return(c, Returned("start", Num(call[c].child), TRUE), log[c])
  /\ history' = [history EXCEPT !.failed = @ \/ result'[c].status = "threw"]
  /\ UNCHANGED <<pidFile, proc, listening, procVersion, nextPid,
                 checked, probed, calls, others>>

\* writePID: the file holds `${pid}` and nothing else
WriteFileResolves(c) ==
  /\ At(c, "writeFile")
  /\ pidFile' = File(ToText(call[c].pid[2]))
  /\ Return(c, Returned("writePID", Null, FALSE), Append(log[c], <<"write", call[c].pid>>))
  /\ history' = [history EXCEPT
                   !.recorded = IF Count(log[c], "returned") > 0
                                THEN @ \cup {call[c].pid[2]} ELSE @]
  /\ UNCHANGED <<proc, listening, procVersion, nextPid, checked, probed, calls, others>>

\* ---- the host ----

\* a spawned process shows up in the process table
Appears(p) ==
  /\ proc[p] = "starting"
  /\ proc' = [proc EXCEPT ![p] = "running"]
  /\ UNCHANGED <<pidFile, listening, procVersion, nextPid,
                 call, result, checked, probed, log, calls, others, history>>

\* a running server binds the port when it is free
Binds(p) ==
  /\ proc[p] = "running"
  /\ listening = 0
  /\ listening' = p
  /\ UNCHANGED <<pidFile, proc, procVersion, nextPid,
                 call, result, checked, probed, log, calls, others, history>>

\* a server exits on its own
Exits(p) ==
  /\ proc[p] = "running"
  /\ proc' = [proc EXCEPT ![p] = "exited"]
  /\ listening' = IF listening = p THEN 0 ELSE listening
  /\ UNCHANGED <<pidFile, procVersion, nextPid,
                 call, result, checked, probed, log, calls, others, history>>

Polling == {"getVersion", "sleepRunning", "wait", "sleepWait"}

\* the budget of the loop a client is in
Budget(where) ==
  CASE where = "getVersion" -> VersionBudget
    [] where = "sleepRunning" -> RunningBudget
    [] OTHER -> ReachableBudget

\* seconds since the loop began; past the budget the amount is not told apart
Later(e, d, budget) == IF e + d > budget THEN budget + 1 ELSE e + d

\* utils.nowSeconds() moves on for every loop that measures it
Tick(d) ==
  /\ \E c \in Clients : call[c].pc \in Polling /\ call[c].elapsed <= Budget(call[c].pc)
  /\ call' = [c \in Clients |->
                IF call[c].pc \in Polling
                THEN [call[c] EXCEPT
                        !.elapsed = Later(call[c].elapsed, d, Budget(call[c].pc))]
                ELSE call[c]]
  /\ UNCHANGED <<pidFile, proc, listening, procVersion, nextPid,
                 result, checked, probed, log, calls, others, history>>

Spawned == {p \in ServerPids : OldServer < p /\ p < nextPid}

\* the server pids a caller can have learnt
Known == {p \in ServerPids : proc[p] # "none"}

\* a method is called
Calls(c) ==
  \/ \E cb \in BOOLEAN : CallStart(c, cb)
  \/ CallCheckAlive(c)
  \/ CallGetServerPID(c)
  \/ \E v \in {Null} \cup {Num(p) : p \in Known} : CallKill(c, v)
  \/ \E n \in {c} \cup Known : CallWritePID(c, n)

\* a pending await of start or checkAlive resolves; a probe is rejected with
\* one of errors
Continues(c, errors) ==
  \/ CheckAliveReads(c)
  \/ GetVersionAnswers(c)
  \/ GetVersionFails(c)
  \/ KillProcessResolves(c)
  \/ RemoveResolves(c)
  \/ RunningSleepResolves(c)
  \/ WaitSucceeds(c)
  \/ \E e \in errors : WaitFails(c, e)
  \/ WaitSleepResolves(c)

Advances(c) == Continues(c, Errors)

\* Where calls are told apart by their order or their end, not by the error a
\* probe is rejected with, one error is explored.
AnError == {"e1"}

Settles(c) == Continues(c, AnError)

\* a pending await of start, checkAlive or writePID resolves
Proceeds(c) == Advances(c) \/ WriteFileResolves(c)

\* a pending await of a call resolves
Resumes(c) ==
  \/ GetServerPIDReturns(c)
  \/ KillResolvesPID(c)
  \/ Proceeds(c)

Host ==
  \/ \E p \in ServerPids : Appears(p)
  \/ \E p \in ServerPids : Binds(p)
  \/ \E p \in ServerPids : Exits(p)
  \/ \E d \in TickSteps : Tick(d)

Next == (\E c \in Clients : Calls(c) \/ Resumes(c)) \/ Host

Spec == Init /\ [][Next]_vars

\* The clients call start and checkAlive, one call after another; every
\* pending await resolves in the end, and the clock moves on.
Checks(c) == CallStart(c, TRUE) \/ CallCheckAlive(c)

NextLive == (\E c \in Clients : Checks(c) \/ Settles(c)) \/ Host

Fairness ==
  /\ \A c \in Clients : WF_vars(Settles(c))
  /\ WF_vars(\E d \in TickSteps : Tick(d))

FairSpec == Init /\ [][NextLive]_vars /\ Fairness

\* The clients start the server, each recording the pid start gave it before
\* it calls start again.
Starts(c) == ~Unrecorded(c) /\ CallStart(c, TRUE)

RecordsStart(c) == Unrecorded(c) /\ CallWritePID(c, result[c].pid[2])

NextRace ==
  \/ \E c \in Clients :
        Starts(c) \/ RecordsStart(c) \/ Settles(c) \/ WriteFileResolves(c)
  \/ Host

RaceSpec == InitRace /\ [][NextRace]_vars

\* The same calls, one after another.
InitRepeat == Setup(FALSE) /\ limit = MaxRepeatCalls /\ proc[OldServer] = "none"

RepeatSpec == InitRepeat /\ [][NextRace]_vars

\* ---- the interactive command wrapper (unnamed/part_000) ----
\* One command, its action and its cancel handler.  The CLI runs one
\* invocation of a command at a time; a step is the resolution of the pending
\* await of the action with the code up to the next await.  What a hook or the
\* command function throws is an Error with a message.

Happened(kind, arg) == Append(command.events, <<kind, arg>>)

\* command.action is called: `cancelled = false`, then
\* cli.executeCommandPreHooks
Invoke ==
  /\ command.pc = "idle"
  /\ command.runs < MaxRuns
  /\ command' = [command EXCEPT !.pc = "pre", !.cancelled = FALSE, !.runs = @ + 1,
                                !.events = <<<<"pre", "none">>>>,
                                !.thrown = "none", !.outcome = "none"]
  /\ UNCHANGED <<managers, resource>>

\* the pre-hooks resolve, and fn is called
PreHooksResolve ==
  /\ command.pc = "pre"
  /\ command' = [command EXCEPT !.pc = "fn", !.events = Happened("fn", "none")]
  /\ UNCHANGED <<managers, resource>>

\* an action that runs the post-hooks of a cancelled command too
Regardless(flag) == TRUE

\* `if (!cancelled)`
NotCancelled(flag) == ~flag

\* fn resolves: the post-hooks are called unless the command was cancelled
FnResolves ==
  /\ command.pc = "fn"
  /\ command' = IF NotCancelled(command.cancelled)
                THEN [command EXCEPT !.pc = "post", !.events = Happened("post", "none")]
                ELSE [command EXCEPT !.pc = "idle", !.outcome = "resolved"]
  /\ UNCHANGED <<managers, resource>>

\* the post-hooks resolve, and the action with them
PostHooksResolve ==
  /\ command.pc = "post"
  /\ command' = [command EXCEPT !.pc = "idle", !.outcome = "resolved"]
  /\ UNCHANGED <<managers, resource>>

\* a try block that ends before the post-hooks
GuardsBody(where) == where \in {"pre", "fn"}

\* the awaits inside `try { ... }`
Guarded(where) == where \in {"pre", "fn", "post"}

\* the pending await rejects: the catch block reports the error with ora and
\* cli.monitor, and the action resolves
Rejects(e) ==
  /\ command.pc \in {"pre", "fn", "post"}
  /\ command' = IF Guarded(command.pc)
                THEN [command EXCEPT !.pc = "idle", !.thrown = e,
                                     !.events = Happened("report", e),
                                     !.outcome = "resolved"]
                ELSE [command EXCEPT !.pc = "idle", !.thrown = e,
                                     !.outcome = "rejected"]
  /\ UNCHANGED <<managers, resource>>

\* the handler given to command.cancel is called while the command runs
Cancel ==
  /\ command.hasCancel
  /\ command.pc # "idle"
  /\ Cardinality({i \in 1..Len(command.events) : command.events[i][1] = "cancel"})
       < MaxCancels
  /\ command' = [command EXCEPT !.cancelled = TRUE,
                                !.events = Happened("cancel", "none")]
  /\ UNCHANGED <<managers, resource>>

\* a host on which no ServerManager is used
NoManagers ==
  /\ pidFile = NoFile
  /\ proc = [p \in Pids |-> IF p \in Clients THEN "running" ELSE "none"]
  /\ procVersion = [p \in ServerPids |-> "none"]
  /\ listening = 0
  /\ nextPid = OldServer + 1
  /\ call = [c \in Clients |-> IdleFrame]
  /\ result = [c \in Clients |-> NoResult]
  /\ checked = [c \in Clients |-> NotChecked]
  /\ probed = [c \in Clients |-> "none"]
  /\ log = [c \in Clients |-> <<>>]
  /\ calls = 0
  /\ history = [overlapped |-> FALSE, failed |-> FALSE, recorded |-> {}]
  /\ concurrent = FALSE
  /\ limit = 0

InitCommand ==
  /\ NoManagers
  /\ resource = Unused
  /\ \E cancellable \in BOOLEAN : command = Uninvoked(cancellable)

NextCommand ==
  \/ Invoke
  \/ PreHooksResolve
  \/ FnResolves
  \/ PostHooksResolve
  \/ \E e \in Errors : Rejects(e)
  \/ Cancel

CommandSpec == InitCommand /\ [][NextCommand]_vars

\* ---- SmartContractResource (neo-one-server-plugin-wallet) ----

\* what createNew may be given
ABIs == {Undefined, Obj(<<>>), Obj(<<<<"entry", Str(<<"main">>)>>>>)}
Contracts == {Undefined, Str(<<"token">>)}
Hashes == {Undefined, Str(<<"h1">>)}
Wallets == {Undefined, Str(<<"w">>)}
PublishedHashes == {Str(<<"h2">>)}

\* `value == null`
Nullish(v) == v[1] = "undefined"

Rejected(e) == resource' = [resource EXCEPT !.pc = "idle", !.error = e]

\* createNew up to its first await: the options are validated
CreateNew(abi, contract, hashIn, walletName) ==
  /\ resource.pc = "idle"
  /\ resource.creates < MaxCreates
  /\ LET r == [resource EXCEPT
                 !.options = [abi |-> abi, contract |-> contract, hash |-> hashIn,
                              wallet |-> walletName],
                 !.hash = hashIn, !.created = NoResource, !.existing = NoResource,
                 !.error = "none", !.creates = @ + 1]
     IN  resource' =
           IF Nullish(abi) THEN [r EXCEPT !.error = "ABIRequiredError"]
           ELSE IF ~Nullish(contract)
           THEN IF Nullish(walletName)
                THEN [r EXCEPT !.error = "WalletRequiredError"]
                ELSE [r EXCEPT !.pc = "publish"]
           ELSE IF Nullish(hashIn)
           THEN [r EXCEPT !.error = "ContractOrHashRequiredError"]
           ELSE [r EXCEPT !.pc = "ensureDir"]
  /\ UNCHANGED <<managers, command>>

\* the contract is published and confirmed with state HALT
PublishHalts(h) ==
  /\ resource.pc = "publish"
  /\ resource' = [resource EXCEPT !.pc = "ensureDir", !.hash = h]
  /\ UNCHANGED <<managers, command>>

\* the receipt has another state, and createNew throws its message
PublishFaults ==
  /\ resource.pc = "publish"
  /\ Rejected("fault")
  /\ UNCHANGED <<managers, command>>

\* fs.ensureDir resolves and the two fs.writeJSON are called
EnsureDirResolves ==
  /\ resource.pc = "ensureDir"
  /\ resource' = [resource EXCEPT !.pc = "write"]
  /\ UNCHANGED <<managers, command>>

\* `{ hash, contractName }`, contractName being contract.name when a contract
\* was given
Config ==
  Obj(<<<<"hash", resource.hash>>, <<"contractName", resource.options.contract>>>>)

\* what is handed to fs.writeJSON(abiPath, ...): JSON.stringify(abi), a string
WrittenABI(abi) == Str(stringify(abi))

\* both writes resolve, and createNew returns the resource
WritesResolve ==
  /\ resource.pc = "write"
  /\ resource' = [resource EXCEPT
                     !.pc = "idle",
                     !.config = File(stringify(Config)),
                     !.abiFile = File(stringify(WrittenABI(resource.options.abi))),
                     !.created = Resource(resource.hash, resource.options.contract,
                                          resource.options.abi)]
  /\ UNCHANGED <<managers, command>>

\* createExisting up to its await: the two fs.readJSON are called
CreateExisting ==
  /\ resource.pc = "idle"
  /\ resource.creates < MaxCreates
  /\ resource' = [resource EXCEPT !.pc = "read", !.existing = NoResource,
                                  !.error = "none", !.creates = @ + 1]
  /\ UNCHANGED <<managers, command>>

\* both reads resolve, or one rejects because there is no file
ReadsResolve ==
  /\ resource.pc = "read"
  /\ IF resource.config.exists /\ resource.abiFile.exists
     THEN LET config == parse(resource.config.contents)
              abi == parse(resource.abiFile.contents)
          IN  resource' = [resource EXCEPT
                             !.pc = "idle",
                             !.existing = Resource(Field(config, "hash"),
                                                   Field(config, "contractName"),
                                                   abi)]
     ELSE Rejected("ENOENT")
  /\ UNCHANGED <<managers, command>>

InitResource == NoManagers /\ command = Uninvoked(TRUE) /\ resource = Unused

NextResource ==
  \/ \E abi \in ABIs, contract \in Contracts, hashIn \in Hashes, walletName \in Wallets :
       CreateNew(abi, contract, hashIn, walletName)
  \/ \E h \in PublishedHashes : PublishHalts(h)
  \/ PublishFaults
  \/ EnsureDirResolves
  \/ WritesResolve
  \/ CreateExisting
  \/ ReadsResolve

ResourceSpec == InitResource /\ [][NextResource]_vars

TypeOK ==
  /\ history.recorded \subseteq ServerPids
  /\ concurrent \in BOOLEAN
  /\ pidFile.exists \in BOOLEAN
  /\ listening \in {0} \cup ServerPids
  /\ nextPid \in (OldServer + 1) .. (OldServer + MaxSpawn + 1)
  /\ \A c \in Clients : call[c].elapsed \in 0..(ReachableBudget + 1)

\* ---- what the log of a call tells ----

Times(c, kind) == Count(log[c], kind)

Has(c, kind) == Times(c, kind) > 0

First(c, kind) ==
  CHOOSE i \in 1..Len(log[c]) :
    log[c][i][1] = kind /\ \A j \in 1..(i - 1) : log[c][j][1] # kind

Arg(c, kind) == log[c][First(c, kind)][2]

IsStart(c) == call[c].op = "start" \/ result[c].op = "start"

\* a query of the call was answered by a server of the client's own version
VersionConfirmed(c) ==
  \E i \in 1..Len(log[c]) :
    log[c][i][1] = "version" /\ procVersion[log[c][i][2][2]] = serverVersion[c]

\* the spawned servers that have not exited
Live == {p \in Spawned : proc[p] \in {"starting", "running"}}

\* a text that is a decimal integer and nothing else
IsIntegerText(s) == s # <<>> /\ \A i \in 1..Len(s) : IsDigit(s[i])

OwnerFoundNothingSpawned ==
  \A c \in Clients :
    (IsStart(c) /\ checked[c].done /\ checked[c].owner # Null) =>
      /\ Times(c, "spawn") = 0
      /\ Times(c, "onStart") = 0
      /\ call[c].pc = "idle"
      /\ result[c] = Returned("start", checked[c].owner, FALSE)

\* a start that was given onStart has returned the server of an earlier session
OwnerFound ==
  \E c \in Clients :
    /\ IsStart(c) /\ checked[c].done /\ checked[c].owner = Num(OldServer)
    /\ Has(c, "onStartGiven")

\* C3: when checkAlive gives start no owner, start calls onStart once (when it
\* was given), spawns once, and what it returns is { pid, started: true } with
\* the pid of the spawned child, after a probe of the port has succeeded.
NoOwnerOneSpawn ==
  \A c \in Clients :
    (IsStart(c) /\ checked[c].done /\ checked[c].owner = Null) =>
      /\ Times(c, "spawn") = 1
      /\ Times(c, "onStart") = Times(c, "onStartGiven")
      /\ Has(c, "onStart") => First(c, "onStart") < First(c, "spawn")
      /\ result[c].status = "returned" =>
           /\ Has(c, "reachable")
           /\ result[c] = Returned("start", Arg(c, "spawn"), TRUE)

\* a start that was given onStart has spawned a server and returned it
StartedServer ==
  \E c \in Clients :
    /\ IsStart(c) /\ checked[c].done /\ checked[c].owner = Null
    /\ Has(c, "onStart")
    /\ result[c].status = "returned" /\ result[c].started

\* C4: when the owner in the pid file is another process, is alive, and a
\* version query is answered with the client's own version, checkAlive returns
\* that owner, and has called neither killProcess nor fs.remove.
CompatibleOwnerKept ==
  \A c \in Clients :
    (Has(c, "alive") /\ VersionConfirmed(c)) =>
      /\ checked[c].done
      /\ checked[c].owner = Arg(c, "alive")
      /\ Times(c, "kill") = 0
      /\ Times(c, "remove") = 0
      /\ Times(c, "write") = 0

\* checkAlive has confirmed the server of an earlier session after a query
\* that failed
CompatibleOwnerConfirmed ==
  \E c \in Clients :
    /\ Has(c, "alive") /\ VersionConfirmed(c) /\ Has(c, "noVersion")
    /\ checked[c].owner = Num(OldServer)

\* C5: when the owner in the pid file is another process, is alive, and no
\* query is answered with the client's own version, checkAlive calls
\* killProcess on that owner, then fs.remove, and returns null.
IncompatibleOwnerKilled ==
  \A c \in Clients :
    (checked[c].done /\ Has(c, "alive") /\ ~VersionConfirmed(c)) =>
      /\ checked[c].owner = Null
      /\ Times(c, "kill") = 1
      /\ Arg(c, "kill") = Arg(c, "alive")
      /\ Times(c, "remove") = 1
      /\ First(c, "kill") < First(c, "remove")

\* checkAlive has given up on an owner that never answered
SilentOwnerKilled ==
  \E c \in Clients :
    /\ checked[c].done /\ Has(c, "alive") /\ ~Has(c, "version")
    /\ Has(c, "noVersion") /\ Has(c, "kill")

\* C6: whenever checkAlive ends without the caller's own pid and without a
\* confirmed owner, it returns null and the pid file does not exist.
StaleRecordRemoved ==
  \A c \in Clients :
    (checked[c].done /\ ~(Arg(c, "read") = Num(c)) /\ ~VersionConfirmed(c)) =>
      /\ checked[c].owner = Null
      /\ ~checked[c].fileExists

\* checkAlive has removed a pid file that held no number
CorruptRecordRemoved ==
  \E c \in Clients :
    checked[c].done /\ Arg(c, "read") = NaN /\ Has(c, "remove")

\* C7, as claimed: after getServerPID has returned, a pid file whose text is
\* not an integer is gone and the value returned is null, not NaN.
CorruptFileHealed ==
  \A c \in Clients :
    (result[c].op = "getServerPID" /\ result[c].status = "returned") =>
      /\ pidFile.exists => IsIntegerText(pidFile.contents)
      /\ result[c].pid # NaN

\* C8: when the pid file holds the caller's own pid, checkAlive returns it
\* without a version query, without killProcess and without fs.remove.
SelfOwnerUnquestioned ==
  \A c \in Clients :
    (Has(c, "read") /\ call[c].op # "kill" /\ result[c].op # "kill"
       /\ Arg(c, "read") = Num(c)) =>
      /\ checked[c].done
      /\ checked[c].owner = Num(c)
      /\ Len(log[c]) = 1 + Times(c, "onStartGiven")
      /\ checked[c].fileExists

\* checkAlive has returned the caller's own pid
SelfOwnerReturned ==
  \E c \in Clients :
    result[c] = Returned("checkAlive", Num(c), FALSE) /\ Arg(c, "read") = Num(c)

\* C9: a start that spawned ends in one of two ways: it returns after a probe
\* succeeded, or, no probe having succeeded within the budget, it throws the
\* error of the last probe and returns nothing.
UnreachableThrowsLastError ==
  \A c \in Clients :
    (result[c].op = "start" /\ Has(c, "spawn")) =>
      /\ result[c].status = "threw" =>
           /\ ~Has(c, "reachable")
           /\ probed[c] # "none"
           /\ result[c].error = probed[c]
      /\ result[c].status = "returned" => Has(c, "reachable")

\* a start has thrown the error of its last probe
StartThrew ==
  \E c \in Clients :
    result[c].op = "start" /\ result[c].status = "threw" /\ result[c].error = "e2"

\* C10, as claimed: kill() that finds no pid file, or one without a number in
\* it, does not call killProcess.
NothingToKill ==
  \A c \in Clients :
    ((call[c].op = "kill" \/ result[c].op = "kill")
       /\ Has(c, "read") /\ Arg(c, "read") \in {Null, NaN}) =>
      Times(c, "kill") = 0

\* C11, as claimed: once start has returned { pid, started: true } and its
\* caller has recorded pid with writePID, a later start of calls that do not
\* overlap, made while that process is alive and answers the version query
\* with the version the caller expects, returns { pid, started: false } and
\* spawns nothing.
RepeatedStartReturnsStarted ==
  \A c \in Clients : \A p \in history.recorded :
    (/\ result[c].op = "start" /\ result[c].status = "returned"
     /\ Has(c, "version") /\ Arg(c, "version") = Num(p)
     /\ procVersion[p] = serverVersion[c]
     /\ proc[p] = "running") =>
      /\ result[c] = Returned("start", Num(p), FALSE)
      /\ Times(c, "spawn") = 0

\* C11, amended: the same of a later start that finds the pid file still
\* holding pid, which a writePID of another pid since would have replaced.
RepeatedStartReturnsRecord ==
  \A c \in Clients : \A p \in history.recorded :
    (/\ IsStart(c) /\ Has(c, "read") /\ Arg(c, "read") = Num(p)
     /\ Has(c, "alive") /\ VersionConfirmed(c)) =>
      /\ call[c].pc = "idle"
      /\ result[c] = Returned("start", Num(p), FALSE)
      /\ Times(c, "spawn") = 0

\* a start has returned the server an earlier start spawned and recorded
StartedServerFound ==
  \E c \in Clients : \E p \in history.recorded :
    /\ result[c] = Returned("start", Num(p), FALSE)
    /\ Arg(c, "read") = Num(p)
    /\ Arg(c, "version") = Num(p)

\* C12: the pid file changes only when a writePID ends, which leaves it
\* holding the pid it was given, and when the fs.remove of a checkAlive ends,
\* which leaves no file: start neither creates nor overwrites it.
OnlyWritePIDWrites ==
  [][pidFile' # pidFile =>
       \E c \in Clients :
         \/ /\ call[c].op = "writePID" /\ call[c].pc = "writeFile"
            /\ call'[c].pc = "idle"
            /\ pidFile' = File(ToText(call[c].pid[2]))
         \/ /\ call[c].op \in {"start", "checkAlive"} /\ call[c].pc = "remove"
            /\ pidFile' = NoFile]_vars

\* a start has returned the server it started, and there is no pid file
StartedAndNoRecord ==
  \E c \in Clients :
    /\ result[c].op = "start" /\ result[c].status = "returned" /\ result[c].started
    /\ Has(c, "spawn")
    /\ ~pidFile.exists

\* a step of client c in which a call of it throws
Throws(c) == result'[c].status = "threw" /\ result[c].status # "threw"

\* a step of client c that ends the version loop without an answer
GivesUpVersion(c) ==
  /\ call[c].pc = "getVersion" /\ call'[c].pc # "getVersion"
  /\ Count(log'[c], "version") = Count(log[c], "version")

\* C13: a rejected version query or probe is followed by the next attempt
\* while the loop's budget lasts.  The version loop ends without an answer
\* only after its 5 s, and then checkAlive goes on to killProcess and throws
\* nothing; a call throws only out of the reachability loop of start, after
\* its 30 s, and what it throws is the error of the last probe.
PollingErrorsKept ==
  [][\A c \in Clients :
       /\ GivesUpVersion(c) =>
            /\ call[c].elapsed > VersionBudget
            /\ call'[c].pc = "killProcess"
            /\ result'[c] = result[c]
       /\ (call[c].pc = "wait" /\ call'[c].pc # "wait") =>
            \/ call'[c].pc = "sleepWait" /\ result'[c] = result[c]
            \/ Count(log'[c], "reachable") = 1
       /\ (call[c].pc = "sleepWait" /\ call[c].elapsed <= ReachableBudget) =>
            call'[c].pc \in {"sleepWait", "wait"}
       /\ Throws(c) =>
            /\ call[c].op = "start" /\ call[c].pc = "sleepWait"
            /\ call[c].elapsed > ReachableBudget
            /\ result'[c].error = probed[c]]_vars

\* the reachability loop probes again after a probe was rejected and the
\* clock has moved, and the version loop asks again after a rejected query
ProbedAgain ==
  \E c \in Clients :
    /\ call[c].pc = "wait" /\ Has(c, "unreachable") /\ call[c].elapsed > 0
    /\ Has(c, "noVersion")

\* the places in the log of c of the calls start makes on behalf of checkAlive
CheckAliveEvents(c) ==
  {i \in 1..Len(log[c]) :
     log[c][i][1] \in {"read", "alive", "dead", "version", "noVersion", "kill", "remove"}}

\* the places in the log of c of the probes of the port
ProbeEvents(c) ==
  {i \in 1..Len(log[c]) : log[c][i][1] \in {"unreachable", "reachable"}}

\* C14: in a start that found no owner the calls follow one another in this
\* order: those of checkAlive, onStart (when given), spawn, waitRunning,
\* waitReachable with its probes, and then the return.
StartInOrder ==
  \A c \in Clients :
    (IsStart(c) /\ checked[c].done /\ checked[c].owner = Null) =>
      /\ \A i \in CheckAliveEvents(c) : i < First(c, "spawn")
      /\ Has(c, "onStart") =>
           /\ \A i \in CheckAliveEvents(c) : i < First(c, "onStart")
           /\ First(c, "onStart") < First(c, "spawn")
      /\ First(c, "spawn") < First(c, "waitRunning")
      /\ Has(c, "waitReachable") => First(c, "waitRunning") < First(c, "waitReachable")
      /\ \A i \in ProbeEvents(c) :
           Has(c, "waitReachable") /\ First(c, "waitReachable") < i
      /\ (result[c].op = "start" /\ result[c].status # "none") =>
           /\ Has(c, "waitReachable")
           /\ ProbeEvents(c) # {}

\* a start has removed a stale pid file, called onStart, spawned, waited for
\* the child to show up, probed the port in vain and then with success
StartRanAllSteps ==
  \E c \in Clients :
    /\ result[c].op = "start" /\ result[c].status = "returned" /\ result[c].started
    /\ Has(c, "remove") /\ Has(c, "onStart")
    /\ Has(c, "unreachable") /\ Has(c, "reachable")

\* C15: every call of checkAlive and of start ends, by returning or by
\* throwing, when every await resolves in the end and the clock moves on.
CallsTerminate ==
  \A c \in Clients :
    (call[c].op \in {"start", "checkAlive"}) ~> (call[c].pc = "idle")

\* a checkAlive has ended after the version loop ran out of time, and a start
\* after the liveness wait did
LoopsRanOut ==
  \E c \in Clients :
    \/ /\ result[c].op = "checkAlive" /\ result[c].status = "returned"
       /\ Has(c, "noVersion") /\ ~Has(c, "version")
    \/ /\ result[c].op = "start" /\ result[c].status = "returned"
       /\ Has(c, "spawn") /\ ~isRunning(Arg(c, "spawn"))

\* a step in which the fs.remove of client c deletes the pid file
Deletes(c) == call[c].pc = "remove" /\ pidFile.exists /\ ~pidFile'.exists

\* C16, as claimed: whenever a client deletes the pid file, the pid the file
\* names at that moment is no number or is not a running process (it never
\* ran, it exited, or the client killed it as incompatible), however the
\* calls of the other clients interleave.
DeletedRecordIsStale ==
  [][\A c \in Clients : Deletes(c) => ~isRunning(ServerPID)]_vars

\* C16, amended: whenever a client deletes the pid file, the pid its call
\* read from the file was no number, or isRunning was false of it, or it was
\* alive, no query confirmed its version and the client has killed it.
DeletedRecordWasStale ==
  [][\A c \in Clients :
       Deletes(c) =>
         /\ Has(c, "read")
         /\ Arg(c, "read") \notin {Null, Num(c)}
         /\ \/ Has(c, "dead") /\ Arg(c, "dead") = Arg(c, "read")
            \/ /\ Has(c, "alive") /\ ~VersionConfirmed(c)
               /\ Has(c, "kill") /\ Arg(c, "kill") = Arg(c, "read")
               /\ ~isRunning(Arg(c, "read"))]_vars

\* while the calls of the clients overlapped, one of them has killed the
\* server the other had started and recorded, and deleted the record
RecordedServerReplaced ==
  \E c \in Clients :
    /\ history.overlapped
    /\ Has(c, "kill") /\ Has(c, "remove")
    /\ Arg(c, "kill")[2] \in history.recorded

\* start has returned { pid, started: true } to c, and the log of that call
\* is still held
StartedTrue(c) ==
  /\ result[c].op = "start" /\ result[c].status = "returned" /\ result[c].started
  /\ log[c] # <<>>

\* C17, as claimed: when start returns { pid, started: true }, isRunning has
\* been true of pid during the call and a probe of the port has succeeded
\* after the spawn, the server answering it being the process pid.
StartedIsRunningServer ==
  \A c \in Clients :
    StartedTrue(c) =>
      /\ Has(c, "running") /\ Arg(c, "running") = result[c].pid
      /\ Has(c, "reachable") /\ First(c, "spawn") < First(c, "reachable")
      /\ Arg(c, "reachable") = result[c].pid

\* C17, amended: when start returns { pid, started: true }, pid is the child
\* spawned in the call, waitRunning has ended, with isRunning true of pid or
\* without, and after it a probe of the port has succeeded, answered by a
\* process that need not be pid.
StartedWasSpawnedAndProbed ==
  \A c \in Clients :
    StartedTrue(c) =>
      /\ Times(c, "spawn") = 1 /\ Arg(c, "spawn") = result[c].pid
      /\ Times(c, "running") + Times(c, "notRunning") = 1
      /\ Has(c, "running") => Arg(c, "running") = result[c].pid
      /\ Has(c, "notRunning") => Arg(c, "notRunning") = result[c].pid
      /\ Times(c, "reachable") = 1
      /\ \A i \in 1..Len(log[c]) :
           log[c][i][1] \in {"running", "notRunning"} =>
             First(c, "spawn") < i /\ i < First(c, "reachable")

\* a start has returned a child that never showed up in the process table,
\* the probe having been answered by the server of an earlier session
StartedUnseenChild ==
  \E c \in Clients :
    /\ StartedTrue(c)
    /\ Has(c, "notRunning")
    /\ Arg(c, "reachable") = Num(OldServer)

\* C18: when the pid file holds a number that is not the caller's pid and
\* isRunning is false of it, checkAlive sends no version query and does not
\* call killProcess: it removes the file and returns null.
DeadOwnerRemovedUnasked ==
  \A c \in Clients :
    (Has(c, "dead") /\ Arg(c, "dead")[1] = "number") =>
      /\ Arg(c, "dead") = Arg(c, "read") /\ Arg(c, "read") # Num(c)
      /\ Times(c, "version") + Times(c, "noVersion") = 0
      /\ Times(c, "kill") = 0
      /\ Times(c, "alive") = 0
      /\ call[c].pc # "getVersion" /\ call[c].pc # "killProcess"
      /\ checked[c].done =>
           /\ checked[c].owner = Null
           /\ Times(c, "remove") = 1
           /\ ~checked[c].fileExists

\* checkAlive has returned null after it found the server of an earlier
\* session in the pid file and not in the process table
DeadOwnerForgotten ==
  \E c \in Clients :
    /\ result[c] = Returned("checkAlive", Null, FALSE)
    /\ Has(c, "dead") /\ Arg(c, "dead") = Num(OldServer)
    /\ Has(c, "remove")

\* the places of an event of the current invocation of the command
Places(kind) == {i \in 1..Len(command.events) : command.events[i][1] = kind}

\* C19: in every invocation of the action the pre-hooks are called first and
\* the command function after them; the post-hooks are called only after the
\* function has resolved and when the cancel handler has not been called in
\* the invocation before; and what the pre-hooks, the function or the
\* post-hooks throw is reported and the action resolves.
HooksAroundCommand ==
  /\ command.events # <<>> => command.events[1][1] = "pre"
  /\ \A i \in Places("fn") : \E j \in Places("pre") : j < i
  /\ \A i \in Places("post") :
       /\ \E j \in Places("fn") : j < i
       /\ \A j \in Places("cancel") : i < j
       /\ \A j \in Places("report") : i < j
  /\ command.outcome # "rejected"
  /\ (command.pc = "idle" /\ command.thrown # "none") =>
       /\ command.outcome = "resolved"
       /\ command.events[Len(command.events)] = <<"report", command.thrown>>
  /\ (command.pc = "idle" /\ command.runs > 0) => command.outcome = "resolved"

\* the second invocation of a command has ended without the post-hooks,
\* the command having been cancelled while its function ran or before
CancelledSkipsPostHooks ==
  /\ command.runs = 2 /\ command.pc = "idle"
  /\ Places("cancel") # {} /\ Places("fn") # {} /\ Places("post") = {}
  /\ command.thrown = "none"

ValidationErrors ==
  {"ABIRequiredError", "WalletRequiredError", "ContractOrHashRequiredError"}

\* C20, as claimed: the resource createExisting makes of a data path has the
\* hash, the contractName and the abi of the resource createNew returned for
\* that path; and a createNew that throws one of the three validation errors
\* on an unused path leaves it without files.
ResourceRoundTrip ==
  /\ (resource.created.made /\ resource.existing.made) =>
       /\ resource.existing.hash = resource.created.hash
       /\ resource.existing.contractName = resource.created.contractName
       /\ resource.existing.abi = resource.created.abi
  /\ (resource.error \in ValidationErrors /\ resource.creates = 1) =>
       ~resource.config.exists /\ ~resource.abiFile.exists

====
